---- MODULE Spec2Model ----
(***************************************************************************)
(* Model of utils/rent_tools.py: the three calculators shared by the       *)
(* landlord and tenant pages (rent, move-out date, repair responsibility). *)
(*                                                                         *)
(* Each calculator returns one formatted text.  The model keeps, for every *)
(* value the text interpolates, the value as it is printed:                *)
(*   - money is printed with "{x:.2f}", so a printed amount is a whole     *)
(*     number of cents.  Input amounts are counted in eighths of a dollar  *)
(*     (1000.00 is 8000, 0.125 is 1): such amounts and all sums, products  *)
(*     and differences the code forms from them are exact in binary        *)
(*     floating point, so the only rounding left is the one of ".2f",      *)
(*     which rounds the exact value to the nearest cent, ties to even;     *)
(*   - texts (dates, repair types, messages) are sequences of characters.  *)
(*                                                                         *)
(* The module also models the landlord's page (pages/landlord_portal.py,   *)
(* specification SpecPortal) and the user store (utils/user_auth.py,       *)
(* specifications SpecAuth for calls in sequence and SpecRace for two      *)
(* registrations at the same time), and login, registration, the access   *)
(* checks of the pages and logout (app.py, pages/register.py,              *)
(* specification SpecSession).                                             *)
(***************************************************************************)
EXTENDS Integers, Sequences, FiniteSets, TLC

VARIABLES call, ret, db, delete_confirm, now, run, users_json, last,
          registered, procs, session, screen, login

tool_vars == <<call, ret>>
portal_vars == <<db, delete_confirm, now, run>>
store_vars == <<users_json, last, registered, procs>>
session_vars == <<session, screen, login>>
vars == <<tool_vars, portal_vars, store_vars, session_vars>>

(***************************************************************************)
(* Bounds of the input sets.                                               *)
(***************************************************************************)
MaxEighths == 4
MaxMonths == 3

(***************************************************************************)
(* Amounts in eighths of a dollar.                                         *)
(***************************************************************************)
Eighths == 8

Dollars(n) == n * Eighths

Amounts == (0 .. MaxEighths) \cup {Dollars(500), Dollars(1000), Dollars(2000)}

Months == (0 .. MaxMonths) \cup {6}

Max(a, b) == IF a >= b THEN a ELSE b

Abs(a) == IF a >= 0 THEN a ELSE 0 - a

\* "{x:.2f}" of a non-negative amount x eighths: the cents printed.
\* 100 * x / 8 = 25 * x / 2 cents; an odd x is a tie and goes to the even cent.
Fmt2Pos(x) ==
    LET twice == 25 * x
        low == twice \div 2
    IN  IF twice % 2 = 0 THEN low
        ELSE IF low % 2 = 0 THEN low ELSE low + 1

\* "{x:.2f}" of any amount x eighths (the sign is printed in front).
Fmt2(x) == IF x >= 0 THEN Fmt2Pos(x) ELSE 0 - Fmt2Pos(0 - x)

(***************************************************************************)
(* calculate_rent                                                          *)
(***************************************************************************)
calculate_rent_no_floor(monthly_rent, stay_months, deposit, is_early_termination, notice_period_months) ==
    LET total_rent == monthly_rent * stay_months
        penalty == monthly_rent * notice_period_months
    IN  IF is_early_termination
        THEN [kind |-> "rent_early",
              monthly_rent |-> Fmt2(monthly_rent),
              stay_months |-> stay_months,
              total_rent |-> Fmt2(total_rent),
              notice_period_months |-> notice_period_months,
              penalty |-> Fmt2(penalty),
              deposit |-> Fmt2(deposit),
              refundable_deposit |-> Fmt2(deposit - penalty)]
        ELSE [kind |-> "rent_normal",
              monthly_rent |-> Fmt2(monthly_rent),
              stay_months |-> stay_months,
              total_rent |-> Fmt2(total_rent),
              deposit |-> Fmt2(deposit),
              refundable_deposit |-> Fmt2(deposit)]

calculate_rent_total_from_notice(monthly_rent, stay_months, deposit, is_early_termination, notice_period_months) ==
    LET total_rent == monthly_rent * notice_period_months
        penalty == monthly_rent * notice_period_months
        refundable_deposit == Max(0, deposit - penalty)
    IN  IF is_early_termination
        THEN [kind |-> "rent_early",
              monthly_rent |-> Fmt2(monthly_rent),
              stay_months |-> stay_months,
              total_rent |-> Fmt2(total_rent),
              notice_period_months |-> notice_period_months,
              penalty |-> Fmt2(penalty),
              deposit |-> Fmt2(deposit),
              refundable_deposit |-> Fmt2(refundable_deposit)]
        ELSE [kind |-> "rent_normal",
              monthly_rent |-> Fmt2(monthly_rent),
              stay_months |-> stay_months,
              total_rent |-> Fmt2(total_rent),
              deposit |-> Fmt2(deposit),
              refundable_deposit |-> Fmt2(deposit)]

calculate_rent_penalty_always(monthly_rent, stay_months, deposit, is_early_termination, notice_period_months) ==
    LET total_rent == monthly_rent * stay_months
        penalty == monthly_rent * notice_period_months
        refundable_deposit == Max(0, deposit - penalty)
    IN  IF is_early_termination
        THEN [kind |-> "rent_early",
              monthly_rent |-> Fmt2(monthly_rent),
              stay_months |-> stay_months,
              total_rent |-> Fmt2(total_rent),
              notice_period_months |-> notice_period_months,
              penalty |-> Fmt2(penalty),
              deposit |-> Fmt2(deposit),
              refundable_deposit |-> Fmt2(refundable_deposit)]
        ELSE [kind |-> "rent_normal",
              monthly_rent |-> Fmt2(monthly_rent),
              stay_months |-> stay_months,
              total_rent |-> Fmt2(total_rent),
              deposit |-> Fmt2(deposit),
              refundable_deposit |-> Fmt2(refundable_deposit)]

\* The values printed by calculate_rent, line by line.
calculate_rent(monthly_rent, stay_months, deposit, is_early_termination, notice_period_months) ==
    LET total_rent == monthly_rent * stay_months
    IN  IF is_early_termination
        THEN LET penalty == monthly_rent * notice_period_months
                 refundable_deposit == Max(0, deposit - penalty)
             IN  [kind |-> "rent_early",
                  monthly_rent |-> Fmt2(monthly_rent),
                  stay_months |-> stay_months,
                  total_rent |-> Fmt2(total_rent),
                  notice_period_months |-> notice_period_months,
                  penalty |-> Fmt2(penalty),
                  deposit |-> Fmt2(deposit),
                  refundable_deposit |-> Fmt2(refundable_deposit)]
        ELSE LET refundable_deposit == deposit
             IN  [kind |-> "rent_normal",
                  monthly_rent |-> Fmt2(monthly_rent),
                  stay_months |-> stay_months,
                  total_rent |-> Fmt2(total_rent),
                  deposit |-> Fmt2(deposit),
                  refundable_deposit |-> Fmt2(refundable_deposit)]

RentCalls ==
    [op : {"calculate_rent"},
     monthly_rent : Amounts,
     stay_months : Months,
     deposit : Amounts,
     is_early_termination : BOOLEAN,
     notice_period_months : Months]

Pending == [kind |-> "pending"]

CallCalculateRent ==
    /\ call.op = "calculate_rent"
    /\ ret = Pending
    /\ ret' = calculate_rent(call.monthly_rent, call.stay_months, call.deposit,
                             call.is_early_termination, call.notice_period_months)
    /\ UNCHANGED <<call, portal_vars, store_vars, session_vars>>

(***************************************************************************)
(* Texts are sequences of one-character strings.  A character outside      *)
(* ASCII is written as a name in angle brackets ("<nian>" is the character *)
(* for year, "<cross>" the cross mark): one element, equal to no other.    *)
(***************************************************************************)
Digit == {"0", "1", "2", "3", "4", "5", "6", "7", "8", "9"}

NonZeroDigit == Digit \ {"0"}

DigitValue ==
    ("0" :> 0) @@ ("1" :> 1) @@ ("2" :> 2) @@ ("3" :> 3) @@ ("4" :> 4) @@
    ("5" :> 5) @@ ("6" :> 6) @@ ("7" :> 7) @@ ("8" :> 8) @@ ("9" :> 9)

DigitChar ==
    <<"0", "1", "2", "3", "4", "5", "6", "7", "8", "9">>

\* the character of s at position i, "" past the end
At(s, i) == IF i >= 1 /\ i <= Len(s) THEN s[i] ELSE ""

\* int() of the characters i..j of s (a leading blank is skipped)
RECURSIVE IntOf(_, _, _)
IntOf(s, i, j) ==
    IF i > j THEN 0
    ELSE IF s[j] = " " THEN 0
    ELSE 10 * IntOf(s, i, j - 1) + DigitValue[s[j]]

\* "%d" of a natural number
RECURSIVE DecimalText(_)
DecimalText(n) ==
    IF n < 10 THEN <<DigitChar[n + 1]>>
    ELSE Append(DecimalText(n \div 10), DigitChar[(n % 10) + 1])

\* "%02d" of a number below 100
Pad2(n) == <<DigitChar[(n \div 10) + 1], DigitChar[(n % 10) + 1]>>

\* t occurs in s as a substring
Contains(s, t) ==
    \E i \in 0 .. (Len(s) - Len(t)) :
        \A j \in 1 .. Len(t) : s[i + j] = t[j]

(***************************************************************************)
(* datetime: the proleptic Gregorian calendar of years 1..9999.            *)
(***************************************************************************)
MINYEAR == 1
MAXYEAR == 9999
MAXORDINAL == 3652059

is_leap_every_four(year) == year % 4 = 0

is_leap(year) == year % 4 = 0 /\ (year % 100 # 0 \/ year % 400 = 0)

DAYS_IN_MONTH == <<31, 28, 31, 30, 31, 30, 31, 31, 30, 31, 30, 31>>

DAYS_BEFORE_MONTH == <<0, 31, 59, 90, 120, 151, 181, 212, 243, 273, 304, 334>>

days_in_month(year, month) ==
    IF month = 2 /\ is_leap(year) THEN 29 ELSE DAYS_IN_MONTH[month]

days_before_year(year) ==
    LET y == year - 1
    IN  y * 365 + (y \div 4) - (y \div 100) + (y \div 400)

days_before_month(year, month) ==
    DAYS_BEFORE_MONTH[month] + (IF month > 2 /\ is_leap(year) THEN 1 ELSE 0)

ymd2ord(year, month, day) ==
    days_before_year(year) + days_before_month(year, month) + day

DI400Y == 146097
DI100Y == 36524
DI4Y == 1461

ord2ymd_no_cycle_end(ordinal) ==
    LET n0 == ordinal - 1
        n400 == n0 \div DI400Y
        r400 == n0 % DI400Y
        n100 == r400 \div DI100Y
        r100 == r400 % DI100Y
        n4 == r100 \div DI4Y
        r4 == r100 % DI4Y
        n1 == r4 \div 365
        n == r4 % 365
        year == n400 * 400 + 1 + n100 * 100 + n4 * 4 + n1
        leapyear == n1 = 3 /\ (n4 # 24 \/ n100 = 3)
        month0 == (n + 50) \div 32
        preceding0 == DAYS_BEFORE_MONTH[month0] + (IF month0 > 2 /\ leapyear THEN 1 ELSE 0)
        month == IF preceding0 > n THEN month0 - 1 ELSE month0
        preceding ==
            IF preceding0 > n
            THEN preceding0 - (DAYS_IN_MONTH[month] + (IF month = 2 /\ leapyear THEN 1 ELSE 0))
            ELSE preceding0
    IN  [year |-> year, month |-> month, day |-> n - preceding + 1]

\* the date of a day number (1 is 0001-01-01)
ord2ymd(ordinal) ==
    LET n0 == ordinal - 1
        n400 == n0 \div DI400Y
        r400 == n0 % DI400Y
        n100 == r400 \div DI100Y
        r100 == r400 % DI100Y
        n4 == r100 \div DI4Y
        r4 == r100 % DI4Y
        n1 == r4 \div 365
        n == r4 % 365
        year == n400 * 400 + 1 + n100 * 100 + n4 * 4 + n1
        leapyear == n1 = 3 /\ (n4 # 24 \/ n100 = 3)
        month0 == (n + 50) \div 32
        preceding0 == DAYS_BEFORE_MONTH[month0] + (IF month0 > 2 /\ leapyear THEN 1 ELSE 0)
        month == IF preceding0 > n THEN month0 - 1 ELSE month0
        preceding ==
            IF preceding0 > n
            THEN preceding0 - (DAYS_IN_MONTH[month] + (IF month = 2 /\ leapyear THEN 1 ELSE 0))
            ELSE preceding0
    IN  IF n1 = 4 \/ n100 = 4
        THEN [year |-> year - 1, month |-> 12, day |-> 31]
        ELSE [year |-> year, month |-> month, day |-> n - preceding + 1]

\* current + timedelta(days=days): a date, or the OverflowError
add_days(current, days) ==
    LET ordinal == ymd2ord(current.year, current.month, current.day) + days
    IN  IF ordinal >= 1 /\ ordinal <= MAXORDINAL
        THEN [ok |-> TRUE, date |-> ord2ymd(ordinal)]
        ELSE [ok |-> FALSE]

\* (a - b).days
days_between(a, b) ==
    ymd2ord(a.year, a.month, a.day) - ymd2ord(b.year, b.month, b.day)

\* strftime("%Y<nian>%m<yue>%d<ri>"): the year is printed unpadded
strftime(date) ==
    DecimalText(date.year) \o <<"<nian>">> \o Pad2(date.month) \o <<"<yue>">>
        \o Pad2(date.day) \o <<"<ri>">>

(***************************************************************************)
(* datetime.strptime(current_date, "%Y-%m-%d").  The format compiles to    *)
(*   (?P<Y>\d\d\d\d)-(?P<m>1[0-2]|0[1-9]|[1-9])-                           *)
(*   (?P<d>3[0-1]|[1-2]\d|0[1-9]|[1-9]| [1-9])                             *)
(* matched at the start of the text; alternatives are tried in order.      *)
(***************************************************************************)
year_matches(s) == \A i \in 1 .. 4 : At(s, i) \in Digit

\* the length of the day matched at position p, 0 when none matches
day_length(s, p) ==
    IF At(s, p) = "3" /\ At(s, p + 1) \in {"0", "1"} THEN 2
    ELSE IF At(s, p) \in {"1", "2"} /\ At(s, p + 1) \in Digit THEN 2
    ELSE IF At(s, p) = "0" /\ At(s, p + 1) \in NonZeroDigit THEN 2
    ELSE IF At(s, p) \in NonZeroDigit THEN 1
    ELSE IF At(s, p) = " " /\ At(s, p + 1) \in NonZeroDigit THEN 2
    ELSE 0

month_two_digits(s, p) ==
    \/ At(s, p) = "1" /\ At(s, p + 1) \in {"0", "1", "2"}
    \/ At(s, p) = "0" /\ At(s, p + 1) \in NonZeroDigit

\* the length of the month matched at position 6 so that the rest of the
\* pattern matches too, 0 when the pattern does not match
month_length(s) ==
    IF month_two_digits(s, 6) /\ At(s, 8) = "-" /\ day_length(s, 9) > 0 THEN 2
    ELSE IF At(s, 6) \in NonZeroDigit /\ At(s, 7) = "-" /\ day_length(s, 8) > 0 THEN 1
    ELSE 0

\* the outcome of strptime: the date, or the ValueError it raises
strptime(s) ==
    IF ~(year_matches(s) /\ At(s, 5) = "-" /\ month_length(s) > 0)
    THEN [status |-> "no_match"]
    ELSE LET mlen == month_length(s)
             dpos == 6 + mlen + 1
             dlen == day_length(s, dpos)
             end == dpos + dlen - 1
             year == IntOf(s, 1, 4)
             month == IntOf(s, 6, 5 + mlen)
             day == IntOf(s, dpos, end)
         IN  IF Len(s) # end
             THEN [status |-> "unconverted", rest |-> SubSeq(s, end + 1, Len(s))]
             ELSE IF year < MINYEAR
             THEN [status |-> "year_out_of_range"]
             ELSE IF day > days_in_month(year, month)
             THEN [status |-> "day_out_of_range"]
             ELSE [status |-> "ok",
                   date |-> [year |-> year, month |-> month, day |-> day]]

ErrorHead ==
    <<"<cross>", " ", "D", "a", "t", "e", " ", "C", "a", "l", "c", "u",
      "l", "a", "t", "i", "o", "n", " ", "E", "r", "r", "o", "r", ":", " ">>

ErrorTail ==
    <<".", " ", "P", "l", "e", "a", "s", "e", " ", "e", "n", "s", "u", "r",
      "e", " ", "t", "h", "e", " ", "d", "a", "t", "e", " ", "f", "o", "r",
      "m", "a", "t", " ", "i", "s", " ", "Y", "Y", "Y", "Y", "-", "M", "M",
      "-", "D", "D", " ", "(", "e", ".", "g", ".", ",", " ", "2", "0", "2",
      "5", "-", "0", "3", "-", "0", "1", ")", ".">>

TimeDataHead ==
    <<"t", "i", "m", "e", " ", "d", "a", "t", "a", " ", "'">>

TimeDataTail ==
    <<"'", " ", "d", "o", "e", "s", " ", "n", "o", "t", " ", "m", "a", "t",
      "c", "h", " ", "f", "o", "r", "m", "a", "t", " ", "'", "%", "Y", "-",
      "%", "m", "-", "%", "d", "'">>

UnconvertedHead ==
    <<"u", "n", "c", "o", "n", "v", "e", "r", "t", "e", "d", " ", "d", "a",
      "t", "a", " ", "r", "e", "m", "a", "i", "n", "s", ":", " ">>

DayOutOfRange ==
    <<"d", "a", "y", " ", "i", "s", " ", "o", "u", "t", " ", "o", "f", " ",
      "r", "a", "n", "g", "e", " ", "f", "o", "r", " ", "m", "o", "n", "t",
      "h">>

YearOutOfRange ==
    <<"y", "e", "a", "r", " ", "0", " ", "i", "s", " ", "o", "u", "t", " ",
      "o", "f", " ", "r", "a", "n", "g", "e">>

DateValueOutOfRange ==
    <<"d", "a", "t", "e", " ", "v", "a", "l", "u", "e", " ", "o", "u", "t",
      " ", "o", "f", " ", "r", "a", "n", "g", "e">>

\* the class of the exception each failure raises
exception_class(status) ==
    IF status = "overflow" THEN "OverflowError" ELSE "ValueError"

\* str(e) of the exception
exception_text(status, rest, s) ==
    CASE status = "no_match" -> TimeDataHead \o s \o TimeDataTail
      [] status = "unconverted" -> UnconvertedHead \o rest
      [] status = "year_out_of_range" -> YearOutOfRange
      [] status = "day_out_of_range" -> DayOutOfRange
      [] OTHER -> DateValueOutOfRange

except_value_error_only(class) == class = "ValueError"

\* "except Exception": ValueError and OverflowError are both caught
except_Exception(class) == class \in {"ValueError", "OverflowError"}

\* the outcome of the try block for a failure: the message returned by the
\* handler, or the exception leaving the function
failure(status, rest, s) ==
    IF except_Exception(exception_class(status))
    THEN [kind |-> "moveout_error",
          message |-> ErrorHead \o exception_text(status, rest, s) \o ErrorTail]
    ELSE [kind |-> "raised", exception |-> exception_class(status)]

moveout_result(parsed, current_date, notice_days) ==
    IF parsed.status = "unconverted"
    THEN failure(parsed.status, parsed.rest, current_date)
    ELSE IF parsed.status # "ok"
    THEN failure(parsed.status, <<>>, current_date)
    ELSE LET current == parsed.date
             sum == add_days(current, notice_days)
         IN  IF ~sum.ok
             THEN failure("overflow", <<>>, current_date)
             ELSE LET moveout_date == sum.date
                      days_remaining == days_between(moveout_date, current)
                  IN  [kind |-> "moveout",
                       notice_date |-> strftime(current),
                       notice_days |-> notice_days,
                       moveout_date |-> strftime(moveout_date),
                       days_remaining |-> days_remaining]

\* The values printed by calculate_moveout_date, or its error message.
calculate_moveout_date(current_date, notice_days) ==
    moveout_result(strptime(current_date), current_date, notice_days)

(***************************************************************************)
(* The date texts tried: a year, a separator, a month, "-", a day and a    *)
(* trailer, each from a small set, and a few other texts.                  *)
(***************************************************************************)
YearTexts ==
    {<<"2", "0", "2", "4">>,
     <<"2", "0", "2", "5">>,
     <<"2", "1", "0", "0">>,
     <<"9", "9", "9", "9">>,
     <<"0", "0", "0", "1">>,
     <<"0", "0", "0", "0">>}

SeparatorTexts ==
    {<<"-">>,
     <<"/">>}

MonthTexts ==
    {<<"0", "1">>,
     <<"0", "2">>,
     <<"0", "3">>,
     <<"1", "2">>,
     <<"1", "3">>,
     <<"0", "0">>,
     <<"3">>}

DayTexts ==
    {<<"0", "1">>,
     <<"1">>,
     <<"2", "8">>,
     <<"2", "9">>,
     <<"3", "0">>,
     <<"3", "1">>,
     <<"3", "2">>,
     <<"0", "0">>,
     <<" ", "1">>}

TrailerTexts ==
    {<<>>,
     <<" ">>,
     <<")">>}

OtherTexts ==
    {<<"n", "o", "t", "-", "a", "-", "d", "a", "t", "e">>,
     <<>>,
     <<"2", "0", "2", "5", "0", "3", "0", "1">>,
     <<" ", "2", "0", "2", "5", "-", "0", "3", "-", "0", "1">>,
     <<"2", "0", "2", "-", "0", "3", "-", "0", "1">>,
     <<"2", "0", "2", "5", "-", "0", "3", "/", "0", "1">>,
     <<"2", "0", "2", "5", "-", "1", "2", "0", "1">>,
     <<"2", "0", "2", "5", "-", "1", "0">>,
     <<"0", "2", "0", "2", "5", "-", "0", "3", "-", "0", "1">>}

DateTexts ==
    {y \o p \o m \o <<"-">> \o d \o t :
        y \in YearTexts, p \in SeparatorTexts, m \in MonthTexts,
        d \in DayTexts, t \in TrailerTexts} \cup OtherTexts

MaxNoticeDays == 2

NoticeDays == (-1 .. MaxNoticeDays) \cup {59, 60, 365}

MoveoutCalls ==
    [op : {"calculate_moveout_date"},
     current_date : DateTexts,
     notice_days : NoticeDays]

CallCalculateMoveoutDate ==
    /\ call.op = "calculate_moveout_date"
    /\ ret = Pending
    /\ ret' = calculate_moveout_date(call.current_date, call.notice_days)
    /\ UNCHANGED <<call, portal_vars, store_vars, session_vars>>

(***************************************************************************)
(* get_repair_responsibility                                               *)
(***************************************************************************)
LowerOf ==
    ("A" :> "a") @@ ("B" :> "b") @@ ("C" :> "c") @@ ("D" :> "d") @@ ("E" :> "e") @@
    ("F" :> "f") @@ ("G" :> "g") @@ ("H" :> "h") @@ ("I" :> "i") @@ ("J" :> "j") @@
    ("K" :> "k") @@ ("L" :> "l") @@ ("M" :> "m") @@ ("N" :> "n") @@ ("O" :> "o") @@
    ("P" :> "p") @@ ("Q" :> "q") @@ ("R" :> "r") @@ ("S" :> "s") @@ ("T" :> "t") @@
    ("U" :> "u") @@ ("V" :> "v") @@ ("W" :> "w") @@ ("X" :> "x") @@ ("Y" :> "y") @@
    ("Z" :> "z")

lower_identity(s) == s

\* str.lower() of a text of ASCII characters
lower(s) == [i \in 1 .. Len(s) |-> IF s[i] \in DOMAIN LowerOf THEN LowerOf[s[i]] ELSE s[i]]

BULB == <<"b", "u", "l", "b">>

TUBE == <<"t", "u", "b", "e">>

AIR_CONDITIONER == <<"a", "i", "r", " ", "c", "o", "n", "d", "i", "t", "i", "o", "n", "e", "r">>

STRUCTURE_KEYWORDS ==
    {<<"l", "i", "g", "h", "t">>,
     <<"r", "o", "o", "f">>,
     <<"p", "i", "p", "e">>,
     <<"c", "i", "r", "c", "u", "i", "t">>,
     <<"s", "t", "r", "u", "c", "t", "u", "r", "e">>}

\* the cost a tenant bears alone (small repair clause), in dollars
SMALL_REPAIR_LIMIT == 200

get_repair_responsibility_cost_first(repair_type, cost) ==
    LET rt == lower(repair_type)
    IN  IF Contains(rt, BULB) \/ Contains(rt, TUBE)
        THEN [kind |-> "tenant_bears", repair_type |-> rt]
        ELSE IF cost > 0
        THEN IF cost <= Dollars(SMALL_REPAIR_LIMIT)
             THEN [kind |-> "small_repair", repair_type |-> rt, cost |-> Fmt2(cost)]
             ELSE [kind |-> "cost_split", repair_type |-> rt, cost |-> Fmt2(cost),
                   tenant_share |-> Fmt2(Dollars(SMALL_REPAIR_LIMIT)),
                   landlord_share |-> Fmt2(cost - Dollars(SMALL_REPAIR_LIMIT))]
        ELSE IF Contains(rt, AIR_CONDITIONER)
        THEN [kind |-> "air_conditioner", repair_type |-> rt]
        ELSE IF \E k \in STRUCTURE_KEYWORDS : Contains(rt, k)
        THEN [kind |-> "landlord_bears", repair_type |-> rt]
        ELSE [kind |-> "undetermined", repair_type |-> rt]

get_repair_responsibility_air_first(repair_type, cost) ==
    LET rt == lower(repair_type)
    IN  IF Contains(rt, AIR_CONDITIONER)
        THEN [kind |-> "air_conditioner", repair_type |-> rt]
        ELSE IF Contains(rt, BULB) \/ Contains(rt, TUBE)
        THEN [kind |-> "tenant_bears", repair_type |-> rt]
        ELSE IF cost > 0
        THEN IF cost <= Dollars(SMALL_REPAIR_LIMIT)
             THEN [kind |-> "small_repair", repair_type |-> rt, cost |-> Fmt2(cost)]
             ELSE [kind |-> "cost_split", repair_type |-> rt, cost |-> Fmt2(cost),
                   tenant_share |-> Fmt2(Dollars(SMALL_REPAIR_LIMIT)),
                   landlord_share |-> Fmt2(cost - Dollars(SMALL_REPAIR_LIMIT))]
        ELSE IF \E k \in STRUCTURE_KEYWORDS : Contains(rt, k)
        THEN [kind |-> "landlord_bears", repair_type |-> rt]
        ELSE [kind |-> "undetermined", repair_type |-> rt]

get_repair_responsibility_landlord_pays_all(repair_type, cost) ==
    LET rt == lower(repair_type)
    IN  IF Contains(rt, BULB) \/ Contains(rt, TUBE)
        THEN [kind |-> "tenant_bears", repair_type |-> rt]
        ELSE IF Contains(rt, AIR_CONDITIONER)
        THEN [kind |-> "air_conditioner", repair_type |-> rt]
        ELSE IF cost > 0
        THEN IF cost <= Dollars(SMALL_REPAIR_LIMIT)
             THEN [kind |-> "small_repair", repair_type |-> rt, cost |-> Fmt2(cost)]
             ELSE [kind |-> "cost_split", repair_type |-> rt, cost |-> Fmt2(cost),
                   tenant_share |-> Fmt2(Dollars(SMALL_REPAIR_LIMIT)),
                   landlord_share |-> Fmt2(cost)]
        ELSE IF \E k \in STRUCTURE_KEYWORDS : Contains(rt, k)
        THEN [kind |-> "landlord_bears", repair_type |-> rt]
        ELSE [kind |-> "undetermined", repair_type |-> rt]

get_repair_responsibility_structure_first(repair_type, cost) ==
    LET rt == lower(repair_type)
    IN  IF Contains(rt, BULB) \/ Contains(rt, TUBE)
        THEN [kind |-> "tenant_bears", repair_type |-> rt]
        ELSE IF Contains(rt, AIR_CONDITIONER)
        THEN [kind |-> "air_conditioner", repair_type |-> rt]
        ELSE IF \E k \in STRUCTURE_KEYWORDS : Contains(rt, k)
        THEN [kind |-> "landlord_bears", repair_type |-> rt]
        ELSE IF cost > 0
        THEN IF cost <= Dollars(SMALL_REPAIR_LIMIT)
             THEN [kind |-> "small_repair", repair_type |-> rt, cost |-> Fmt2(cost)]
             ELSE [kind |-> "cost_split", repair_type |-> rt, cost |-> Fmt2(cost),
                   tenant_share |-> Fmt2(Dollars(SMALL_REPAIR_LIMIT)),
                   landlord_share |-> Fmt2(cost - Dollars(SMALL_REPAIR_LIMIT))]
        ELSE [kind |-> "undetermined", repair_type |-> rt]

get_repair_responsibility_default_landlord(repair_type, cost) ==
    LET rt == lower(repair_type)
    IN  IF Contains(rt, BULB) \/ Contains(rt, TUBE)
        THEN [kind |-> "tenant_bears", repair_type |-> rt]
        ELSE IF Contains(rt, AIR_CONDITIONER)
        THEN [kind |-> "air_conditioner", repair_type |-> rt]
        ELSE IF cost > 0
        THEN IF cost <= Dollars(SMALL_REPAIR_LIMIT)
             THEN [kind |-> "small_repair", repair_type |-> rt, cost |-> Fmt2(cost)]
             ELSE [kind |-> "cost_split", repair_type |-> rt, cost |-> Fmt2(cost),
                   tenant_share |-> Fmt2(Dollars(SMALL_REPAIR_LIMIT)),
                   landlord_share |-> Fmt2(cost - Dollars(SMALL_REPAIR_LIMIT))]
        ELSE [kind |-> "landlord_bears", repair_type |-> rt]

\* The text variant get_repair_responsibility returns and the values it prints.
get_repair_responsibility(repair_type, cost) ==
    LET rt == lower(repair_type)
    IN  IF Contains(rt, BULB) \/ Contains(rt, TUBE)
        THEN [kind |-> "tenant_bears", repair_type |-> rt]
        ELSE IF Contains(rt, AIR_CONDITIONER)
        THEN [kind |-> "air_conditioner", repair_type |-> rt]
        ELSE IF cost > 0
        THEN IF cost <= Dollars(SMALL_REPAIR_LIMIT)
             THEN [kind |-> "small_repair", repair_type |-> rt, cost |-> Fmt2(cost)]
             ELSE LET tenant_share == Dollars(SMALL_REPAIR_LIMIT)
                      landlord_share == cost - Dollars(SMALL_REPAIR_LIMIT)
                  IN  [kind |-> "cost_split", repair_type |-> rt, cost |-> Fmt2(cost),
                       tenant_share |-> Fmt2(tenant_share),
                       landlord_share |-> Fmt2(landlord_share)]
        ELSE IF \E k \in STRUCTURE_KEYWORDS : Contains(rt, k)
        THEN [kind |-> "landlord_bears", repair_type |-> rt]
        ELSE [kind |-> "undetermined", repair_type |-> rt]

(***************************************************************************)
(* The repair types tried: phrases of up to MaxWords words.                *)
(***************************************************************************)
Words ==
    {<<"b", "u", "l", "b">>,
     <<"B", "U", "L", "B">>,
     <<"T", "u", "b", "e">>,
     <<"t", "u", "b">>,
     <<"a", "i", "r", " ", "c", "o", "n", "d", "i", "t", "i", "o", "n", "e", "r">>,
     <<"A", "i", "r", " ", "C", "o", "n", "d", "i", "t", "i", "o", "n", "e", "r">>,
     <<"a", "i", "r", "c", "o", "n">>,
     <<"l", "i", "g", "h", "t">>,
     <<"R", "o", "o", "f">>,
     <<"p", "i", "p", "e">>,
     <<"c", "i", "r", "c", "u", "i", "t">>,
     <<"s", "t", "r", "u", "c", "t", "u", "r", "e">>,
     <<"m", "y", "s", "t", "e", "r", "y", " ", "i", "s", "s", "u", "e">>,
     <<"p", "l", "u", "m", "b", "i", "n", "g", " ", "l", "e", "a", "k">>,
     <<"r", "e", "p", "l", "a", "c", "e", "m", "e", "n", "t">>}

MaxWords == 2

RECURSIVE Phrases(_)
Phrases(k) ==
    IF k = 1 THEN Words
    ELSE LET shorter == Phrases(k - 1)
         IN  shorter \cup {p \o <<" ">> \o w : p \in shorter, w \in Words}

RepairTypes == Phrases(MaxWords)

Costs ==
    (0 .. MaxEighths) \cup
    {Dollars(50), Dollars(SMALL_REPAIR_LIMIT) - 1, Dollars(SMALL_REPAIR_LIMIT),
     Dollars(SMALL_REPAIR_LIMIT) + 1, Dollars(250), Dollars(300)}

RepairCalls ==
    [op : {"get_repair_responsibility"},
     repair_type : RepairTypes,
     cost : Costs]

CallGetRepairResponsibility ==
    /\ call.op = "get_repair_responsibility"
    /\ ret = Pending
    /\ ret' = get_repair_responsibility(call.repair_type, call.cost)
    /\ UNCHANGED <<call, portal_vars, store_vars, session_vars>>

(***************************************************************************)
(* pages/landlord_portal.py: the landlord's page.                          *)
(*                                                                         *)
(* Streamlit runs the script from top to bottom once per click.  A button  *)
(* returns True only in the run its click starts, and only a button the    *)
(* previous run has drawn can be clicked.  st.session_state survives from  *)
(* run to run; so does the directory db/.  One action is one run.          *)
(*                                                                         *)
(* db maps a directory name under db/ to the lease directory of that name, *)
(* delete_confirm is st.session_state.delete_confirm, now the clock read   *)
(* by time.strftime, and run records the last run: the button that started *)
(* it, the value of its inputs, what it showed, and db and delete_confirm  *)
(* as they were when it started.                                           *)
(***************************************************************************)
MaxRuns == 2

\* None of Python
NONE == "<None>"

\* the texts of the cloud-link column
CloudLinkYes == "<check> <you>"
CloudLinkNo == "<cross> <wu>"

\* property IDs typed into "Property ID (Unique)"; the field takes any text
PropertyIds == {"MSH2025-001", CloudLinkNo}

NoUpload == "<no file>"
Uploads == {"new.pdf"}
OldPdf == "old.pdf"
TenantNames == {"Ken"}
MonthlyRents == {2500}
VersionNotes == {"", "Adjusted Deposit"}
CloudLinks == {"", "https://1drv.ms/lease"}
QrFilename == "contract_qr.png"

NoFile == [present |-> FALSE]
Absent == [exists |-> FALSE]
EmptyDir ==
    [exists |-> TRUE, contract |-> NoUpload, index |-> NoUpload,
     metadata |-> NoFile, temp_new |-> FALSE, qr |-> FALSE]

\* a lease saved before the session started, with or without a cloud link
OldLease(property_id, cloud_link) ==
    [exists |-> TRUE, contract |-> OldPdf, index |-> OldPdf,
     metadata |-> [present |-> TRUE, property_id |-> property_id,
                   tenant_name |-> "Ken", monthly_rent |-> 2500,
                   last_updated |-> 0, version_note |-> "v1",
                   cloud_link |-> cloud_link,
                   qr_code |-> IF cloud_link # "" THEN QrFilename ELSE "",
                   previous_version |-> {}],
     temp_new |-> FALSE, qr |-> cloud_link # ""]

InitialDirs(property_id) ==
    {Absent, EmptyDir} \cup {OldLease(property_id, c) : c \in CloudLinks}

NoRun ==
    [click |-> "none", id |-> "", up |-> NoUpload, message |-> "",
     completed |-> TRUE, confirm_overwrite |-> FALSE, pending |-> NONE,
     before |-> [n \in PropertyIds |-> Absent]]

\* os.path.exists(os.path.join("db", name))
exists(d, name) == name \in DOMAIN d /\ d[name].exists

\* the names of the rows of "Existing Leases": the directories of db/ that
\* hold a metadata.json
rows(d) == {n \in DOMAIN d : d[n].exists /\ d[n].metadata.present}

\* r[5] of a row: the cloud-link column
cloud_link_status(d, name) ==
    IF d[name].metadata.cloud_link # "" THEN CloudLinkYes ELSE CloudLinkNo

\* what the delete button of the row stores in delete_confirm: r[5]
delete_button_stores(d, name) == cloud_link_status(d, name)

\* the try block that compares the old and the new contract: it writes
\* temp_new.pdf into the directory and removes it at its end; an exception
\* of the loaders or the LLM is caught wherever it is raised
analyse(dir, analysis) ==
    [dir EXCEPT !.temp_new = IF analysis = "fails_after_temp" THEN TRUE ELSE @]

AnalysisOutcomes == {"ok", "fails_before_temp", "fails_after_temp"}

\* the run of a click on "Save to Database" with the form f; analysis,
\* index_ok and qr_ok are the outcomes of the LLM comparison, of
\* build_vectorstore_from_pdf and of the QR code
save_to_database(d, t, f, analysis, index_ok, qr_ok) ==
    IF f.property_id = "" \/ f.up = NoUpload
    THEN [db |-> d, message |-> "error: fill in", completed |-> TRUE,
          confirm_overwrite |-> FALSE]
    ELSE
    LET id == f.property_id
        was == exists(d, id)
        \* lines 73-133: only an existing lease is analysed, and the confirm
        \* button, drawn in this run, returns False
        d2 == IF was THEN [d EXCEPT ![id] = analyse(@, analysis)] ELSE d
    IN  \* line 136: open(pdf_path, "wb") needs the directory
        IF ~exists(d2, id)
        THEN [db |-> d2, message |-> "exception: FileNotFoundError",
              completed |-> FALSE, confirm_overwrite |-> was]
        ELSE
        LET d3 == [d2 EXCEPT ![id].contract = f.up]
        IN  IF ~index_ok
            THEN [db |-> d3, message |-> "exception: index",
                  completed |-> FALSE, confirm_overwrite |-> was]
            ELSE
            LET qr_filename == IF f.cloud_link # "" /\ qr_ok
                               THEN QrFilename ELSE ""
                old == d3[id].metadata
                old_version_time == IF old.present THEN {old.last_updated}
                                    ELSE {}
                meta == [present |-> TRUE, property_id |-> id,
                         tenant_name |-> f.tenant_name,
                         monthly_rent |-> f.monthly_rent,
                         last_updated |-> t,
                         version_note |-> IF f.version_note # ""
                                          THEN f.version_note ELSE "v1",
                         cloud_link |-> f.cloud_link,
                         qr_code |-> qr_filename,
                         previous_version |-> old_version_time]
                d4 == [d3 EXCEPT ![id].index = f.up,
                                 ![id].qr = @ \/ qr_filename # "",
                                 ![id].metadata = meta]
            IN  [db |-> d4, message |-> "success", completed |-> TRUE,
                 confirm_overwrite |-> was]

Forms ==
    [property_id : {""} \cup PropertyIds, tenant_name : TenantNames,
     monthly_rent : MonthlyRents, version_note : VersionNotes,
     cloud_link : CloudLinks, up : {NoUpload} \cup Uploads]

\* the confirmation dialog is drawn by a run that reaches it with a pending
\* deletion and at least one row
dialog_shown == run.completed /\ delete_confirm # NONE /\ rows(db) # {}

\* a click on "Save to Database"
ClickSave ==
    /\ UNCHANGED <<tool_vars, store_vars, session_vars>>
    /\ screen.content = "landlord portal"
    /\ now <= MaxRuns
    /\ \E f \in Forms, analysis \in AnalysisOutcomes, index_ok \in BOOLEAN,
          qr_ok \in BOOLEAN :
          LET r == save_to_database(db, now, f, analysis, index_ok, qr_ok)
          IN  /\ db' = r.db
              /\ run' = [click |-> "save", id |-> f.property_id, up |-> f.up,
                         message |-> r.message, completed |-> r.completed,
                         confirm_overwrite |-> r.confirm_overwrite,
                         pending |-> delete_confirm, before |-> db]
    /\ now' = now + 1
    /\ UNCHANGED delete_confirm

\* a click on "Confirm Overwrite Old Contract": the run it starts has
\* "Save to Database" at False and never reaches the button
ClickConfirmOverwrite ==
    /\ UNCHANGED <<tool_vars, store_vars, session_vars>>
    /\ screen.content = "landlord portal"
    /\ now <= MaxRuns
    /\ run.confirm_overwrite
    /\ run' = [click |-> "confirm_overwrite", id |-> run.id, up |-> run.up,
               message |-> "", completed |-> TRUE,
               confirm_overwrite |-> FALSE, pending |-> delete_confirm,
               before |-> db]
    /\ now' = now + 1
    /\ UNCHANGED <<db, delete_confirm>>

\* a click on the delete button of the row of lease name
ClickDelete ==
    /\ UNCHANGED <<tool_vars, store_vars, session_vars>>
    /\ screen.content = "landlord portal"
    /\ now <= MaxRuns
    /\ run.completed
    /\ \E name \in rows(db) :
          /\ delete_confirm' = delete_button_stores(db, name)
          /\ run' = [click |-> "delete", id |-> name, up |-> NoUpload,
                     message |-> "", completed |-> TRUE,
                     confirm_overwrite |-> FALSE, pending |-> delete_confirm,
                     before |-> db]
    /\ now' = now + 1
    /\ UNCHANGED db

\* a click on "Confirm Delete": shutil.rmtree of db/<delete_confirm>
ClickConfirmDelete ==
    /\ UNCHANGED <<tool_vars, store_vars, session_vars>>
    /\ screen.content = "landlord portal"
    /\ now <= MaxRuns
    /\ dialog_shown
    /\ IF exists(db, delete_confirm)
       THEN /\ db' = [db EXCEPT ![delete_confirm] = Absent]
            /\ delete_confirm' = NONE
            /\ run' = [click |-> "confirm_delete", id |-> delete_confirm,
                       up |-> NoUpload, message |-> "success",
                       completed |-> TRUE, confirm_overwrite |-> FALSE,
                       pending |-> delete_confirm, before |-> db]
       ELSE /\ run' = [click |-> "confirm_delete", id |-> delete_confirm,
                       up |-> NoUpload, message |-> "error: failed to delete",
                       completed |-> TRUE, confirm_overwrite |-> FALSE,
                       pending |-> delete_confirm, before |-> db]
            /\ UNCHANGED <<db, delete_confirm>>
    /\ now' = now + 1

\* a click on "Cancel"
ClickCancel ==
    /\ UNCHANGED <<tool_vars, store_vars, session_vars>>
    /\ screen.content = "landlord portal"
    /\ now <= MaxRuns
    /\ dialog_shown
    /\ delete_confirm' = NONE
    /\ run' = [click |-> "cancel", id |-> delete_confirm, up |-> NoUpload,
               message |-> "", completed |-> TRUE,
               confirm_overwrite |-> FALSE, pending |-> delete_confirm,
               before |-> db]
    /\ now' = now + 1
    /\ UNCHANGED db

PortalIdle ==
    /\ db = [n \in PropertyIds |-> Absent]
    /\ delete_confirm = NONE
    /\ now = 1
    /\ run = NoRun

(***************************************************************************)
(* utils/user_auth.py: the user store db/users.json.                       *)
(*                                                                         *)
(* users_json is the file: missing, of size 0, or a JSON object that maps  *)
(* a role to the object of its users, each user to a password hash and an  *)
(* email.  last records the last call of register_user or                  *)
(* authenticate_user, its result and the file as it was before the call;   *)
(* registered collects the <<role, username, password>> of the calls of    *)
(* register_user that returned True.  procs are the calls of register_user *)
(* that run at the same time, each in the thread of its browser session.   *)
(***************************************************************************)
Usernames == {"alice", "bob"}
Passwords == {"alice123", "hunter2"}
Emails == {"", "alice@example.com"}
ValidRoles == {"landlords", "tenants"}
Roles == ValidRoles \cup {"admins"}

Missing == [state |-> "missing"]
EmptyFile == [state |-> "size 0"]
JsonFile(users) == [state |-> "json", users |-> users]

\* {"landlords": {}, "tenants": {}}
EmptyUsers == [r \in ValidRoles |-> <<>>]

_init_user_db(file) ==
    IF file = Missing \/ file = EmptyFile THEN JsonFile(EmptyUsers) ELSE file

\* hashlib.sha256(p.encode("utf-8")).hexdigest()
_hash_password(p) ==
    CASE p = "alice123" ->
           "4e40e8ffe0ee32fa53e139147ed559229a5930f89c2204706fc174beb36210b3"
      [] p = "hunter2" ->
           "f52fbd32b2b3b86ff88ef6c490628285f482af15ddcb29541f94bcf526a3f6c7"
      [] p = "" ->
           "e3b0c44298fc1c149afbf4c8996fb92427ae41e4649b934ca495991b7852b855"

\* users[role][username] = value
set_user(users, role, username, value) ==
    [users EXCEPT ![role] =
        [u \in DOMAIN @ \cup {username} |-> IF u = username THEN value ELSE @[u]]]

register_checks_overwrite(users, username, password, role, email) ==
    IF role \notin DOMAIN users
    THEN [ok |-> FALSE, message |-> "Invalid user role.", write |-> FALSE,
          users |-> users]
    ELSE [ok |-> TRUE, message |-> "Registration successful", write |-> TRUE,
          users |-> set_user(users, role, username,
                             [password |-> _hash_password(password),
                              email |-> email])]

\* lines 17-21 of register_user on the users it has read
register_checks(users, username, password, role, email) ==
    IF role \notin DOMAIN users
    THEN [ok |-> FALSE, message |-> "Invalid user role.", write |-> FALSE,
          users |-> users]
    ELSE IF username \in DOMAIN users[role]
    THEN [ok |-> FALSE, message |-> "Username already exists.",
          write |-> FALSE, users |-> users]
    ELSE [ok |-> TRUE, message |-> "Registration successful", write |-> TRUE,
          users |-> set_user(users, role, username,
                             [password |-> _hash_password(password),
                              email |-> email])]

\* register_user run without interruption: its result and the file it leaves
register_user(file, username, password, role, email) ==
    LET file1 == _init_user_db(file)
        r == register_checks(file1.users, username, password, role, email)
    IN  [ok |-> r.ok, message |-> r.message,
         file |-> IF r.write THEN JsonFile(r.users) ELSE file1]

authenticate_user_any_password(file, username, password, role) ==
    LET file1 == _init_user_db(file)
        users == file1.users
    IN  IF role \notin DOMAIN users
        THEN [ok |-> FALSE, message |-> "Invalid user role.", file |-> file1]
        ELSE IF username \notin DOMAIN users[role]
        THEN [ok |-> FALSE, message |-> "User does not exist.", file |-> file1]
        ELSE [ok |-> TRUE, message |-> "Login successful!", file |-> file1]

authenticate_user(file, username, password, role) ==
    LET file1 == _init_user_db(file)
        users == file1.users
    IN  IF role \notin DOMAIN users
        THEN [ok |-> FALSE, message |-> "Invalid user role.", file |-> file1]
        ELSE IF username \notin DOMAIN users[role]
        THEN [ok |-> FALSE, message |-> "User does not exist.", file |-> file1]
        ELSE IF users[role][username].password # _hash_password(password)
        THEN [ok |-> FALSE, message |-> "Incorrect password.", file |-> file1]
        ELSE [ok |-> TRUE, message |-> "Login successful!", file |-> file1]

NoCall == [op |-> "none"]

\* a call of register_user
Register ==
    /\ UNCHANGED <<tool_vars, portal_vars, procs, session_vars>>
    /\ \E username \in Usernames, password \in Passwords, role \in Roles,
       email \in Emails :
        LET r == register_user(users_json, username, password, role, email)
        IN  /\ users_json' = r.file
            /\ last' = [op |-> "register_user", username |-> username,
                        password |-> password, role |-> role,
                        email |-> email, ok |-> r.ok, message |-> r.message,
                        before |-> users_json]
            /\ registered' = IF r.ok
                             THEN registered \cup {<<role, username, password>>}
                             ELSE registered

\* a call of authenticate_user
Authenticate ==
    /\ UNCHANGED <<tool_vars, portal_vars, procs, session_vars>>
    /\ \E username \in Usernames, password \in Passwords, role \in Roles :
        LET r == authenticate_user(users_json, username, password, role)
        IN  /\ users_json' = r.file
            /\ last' = [op |-> "authenticate_user", username |-> username,
                        password |-> password, role |-> role, email |-> "",
                        ok |-> r.ok, message |-> r.message,
                        before |-> users_json]
            /\ UNCHANGED registered

(***************************************************************************)
(* Two sessions press "Register" at the same time (pages/register.py, line *)
(* 66).  Each call is three steps on the file: _init_user_db, the read of  *)
(* line 16, and the checks with the write of line 20.                      *)
(***************************************************************************)
Sessions == {1, 2}

RegisterCalls ==
    [username : Usernames, password : Passwords, role : ValidRoles,
     email : {""}]

NotStarted(args) ==
    [pc |-> "init", args |-> args, users |-> EmptyUsers, ok |-> FALSE]

NoProcs == [i \in Sessions |-> [pc |-> "none"]]

\* line 15
InitUserDb(i) ==
    /\ UNCHANGED <<tool_vars, portal_vars, last, registered,
                 session_vars>>
    /\ procs[i].pc = "init"
    /\ users_json' = _init_user_db(users_json)
    /\ procs' = [procs EXCEPT ![i].pc = "read"]

\* line 16
ReadUsers(i) ==
    /\ UNCHANGED <<tool_vars, portal_vars, last, registered,
                 session_vars>>
    /\ procs[i].pc = "read"
    /\ users_json.state = "json"
    /\ procs' = [procs EXCEPT ![i].pc = "write", ![i].users = users_json.users]
    /\ UNCHANGED users_json

\* lines 17-21
WriteUsers(i) ==
    /\ UNCHANGED <<tool_vars, portal_vars, last, registered,
                 session_vars>>
    /\ procs[i].pc = "write"
    /\ LET a == procs[i].args
           r == register_checks(procs[i].users, a.username, a.password,
                                a.role, a.email)
       IN  /\ users_json' = IF r.write THEN JsonFile(r.users) ELSE users_json
           /\ procs' = [procs EXCEPT ![i].pc = "done", ![i].ok = r.ok]

StoreIdle ==
    /\ users_json = Missing
    /\ last = NoCall
    /\ registered = {}
    /\ procs = NoProcs

(***************************************************************************)
(* app.py, pages/register.py and the head of the two role pages: login,    *)
(* registration, access checks and logout.                                 *)
(*                                                                         *)
(* session is st.session_state of one browser session (the keys user_role  *)
(* and username; Unset is a key that is not there), screen is the page     *)
(* whose script ran last, what it drew and the click that started the run, *)
(* and login is the role for which authenticate_user has returned True in  *)
(* this session since the session state was last empty (NONE if none).     *)
(* st.switch_page stops the running script and runs the target page.       *)
(***************************************************************************)
Unset == "<unset>"

\* st.session_state after clear() and of a new browser session
ClearedSession == [user_role |-> Unset, username |-> Unset]

\* st.session_state.get(key)
get(s, key) == IF s[key] = Unset THEN NONE ELSE s[key]

Pages == {"app.py", "pages/register.py", "pages/tenant_chat.py",
          "pages/landlord_portal.py"}

\* app.py, lines 37-40
session_init(s) ==
    [user_role |-> get(s, "user_role"), username |-> get(s, "username")]

RECURSIVE render(_, _)
\* a run of the script of page on the session state s, with no button
\* pressed: the session state it leaves, the page that ends up drawn and
\* what is drawn
render(page, s) ==
    CASE page = "app.py" ->
           LET s1 == session_init(s)
           IN  IF s1.user_role = "landlords"
               THEN render("pages/landlord_portal.py", s1)
               ELSE IF s1.user_role = "tenants"
               THEN render("pages/tenant_chat.py", s1)
               ELSE [session |-> s1, page |-> page, content |-> "login form"]
      [] page = "pages/tenant_chat.py" ->
           IF get(s, "user_role") # "tenants"
           THEN render("app.py", s)
           ELSE [session |-> s, page |-> page, content |-> "tenant chat"]
      [] page = "pages/landlord_portal.py" ->
           IF get(s, "user_role") # "landlords"
           THEN render("app.py", s)
           ELSE [session |-> s, page |-> page, content |-> "landlord portal"]
      [] page = "pages/register.py" ->
           IF s.user_role \notin {Unset, NONE, ""}
           THEN render("app.py", s)
           ELSE [session |-> s, page |-> page, content |-> "register form"]

\* role_map of app.py and line 43 of register.py
role_of(role_display) ==
    IF role_display = "Tenant" THEN "tenants" ELSE "landlords"

RoleDisplays == {"Tenant", "Landlord"}
LANDLORD_KEY == "ilovedss"
LandlordKeys == {"", LANDLORD_KEY, "letmein"}

login_handler_sets_role_before_check(s, file, role_display, username, password) ==
    LET role == role_of(role_display)
        r == authenticate_user(file, username, password, role)
        s1 == [user_role |-> role, username |-> username]
    IN  [called |-> TRUE, ok |-> r.ok, message |-> r.message,
         file |-> r.file,
         view |-> IF r.ok
                  THEN render(IF role = "landlords"
                              THEN "pages/landlord_portal.py"
                              ELSE "pages/tenant_chat.py", s1)
                  ELSE [session |-> s1, page |-> "app.py",
                        content |-> "login form"]]

\* app.py, lines 71-88, on the session state s left by lines 37-46
login_handler(s, file, role_display, username, password) ==
    LET role == role_of(role_display)
    IN  IF username = "" \/ password = ""
        THEN [called |-> FALSE, ok |-> FALSE,
              message |-> "Please enter your username and password.",
              file |-> file,
              view |-> [session |-> s, page |-> "app.py",
                        content |-> "login form"]]
        ELSE
        LET r == authenticate_user(file, username, password, role)
        IN  IF r.ok
            THEN [called |-> TRUE, ok |-> TRUE, message |-> r.message,
                  file |-> r.file,
                  view |-> render(IF role = "landlords"
                                  THEN "pages/landlord_portal.py"
                                  ELSE "pages/tenant_chat.py",
                                  [user_role |-> role, username |-> username])]
            ELSE [called |-> TRUE, ok |-> FALSE, message |-> r.message,
                  file |-> r.file,
                  view |-> [session |-> s, page |-> "app.py",
                            content |-> "login form"]]

Screen(view, click) ==
    [page |-> view.page, content |-> view.content, click |-> click]

\* the address of a page opened in the browser: a new session
OpenPage ==
    /\ UNCHANGED <<tool_vars, portal_vars, store_vars>>
    /\ \E page \in Pages :
          LET v == render(page, ClearedSession)
          IN  /\ session' = v.session
              /\ screen' = Screen(v, "open")
    /\ login' = NONE

\* "Login" of the login form
ClickLogin ==
    /\ UNCHANGED <<tool_vars, portal_vars, registered, procs>>
    /\ screen.content = "login form"
    /\ \E role_display \in RoleDisplays, username \in {""} \cup Usernames,
          password \in {""} \cup Passwords :
          LET r == login_handler(session_init(session), users_json, role_display,
                         username, password)
          IN  /\ session' = r.view.session
              /\ screen' = Screen(r.view, "login")
              /\ users_json' = r.file
              /\ last' = IF r.called
                         THEN [op |-> "authenticate_user",
                               username |-> username, password |-> password,
                               role |-> role_of(role_display), email |-> "",
                               ok |-> r.ok, message |-> r.message,
                               before |-> users_json]
                         ELSE last
              /\ login' = IF r.ok THEN role_of(role_display) ELSE login

\* "Register New Account" of app.py
ClickRegisterNewAccount ==
    /\ UNCHANGED <<tool_vars, portal_vars, store_vars, login>>
    /\ screen.content = "login form"
    /\ LET v == render("pages/register.py", session_init(session))
       IN  /\ session' = v.session
           /\ screen' = Screen(v, "register new account")

\* "Register" of pages/register.py, lines 57-72
ClickRegister ==
    /\ UNCHANGED <<tool_vars, portal_vars, procs, login>>
    /\ screen.content = "register form"
    /\ \E role_display \in RoleDisplays, landlord_key \in LandlordKeys,
          username \in {""} \cup Usernames, password \in {""} \cup Passwords,
          confirm \in Passwords :
          LET role == role_of(role_display)
          IN  IF \/ username = "" \/ password = ""
                 \/ password # confirm
                 \/ (role = "landlords" /\ landlord_key # LANDLORD_KEY)
              THEN /\ screen' = [screen EXCEPT !.click = "register"]
                   /\ UNCHANGED <<session, users_json, last, registered>>
              ELSE
              LET r == register_user(users_json, username, password, role, "")
                  v == IF r.ok THEN render("app.py", session)
                       ELSE [session |-> session, page |-> screen.page,
                             content |-> screen.content]
              IN  /\ users_json' = r.file
                  /\ last' = [op |-> "register_user", username |-> username,
                              password |-> password, role |-> role,
                              email |-> "", ok |-> r.ok,
                              message |-> r.message, before |-> users_json]
                  /\ registered' =
                        IF r.ok
                        THEN registered \cup {<<role, username, password>>}
                        ELSE registered
                  /\ session' = v.session
                  /\ screen' = Screen(v, "register")

\* "Back to Login Page" of pages/register.py
ClickBackToLogin ==
    /\ UNCHANGED <<tool_vars, portal_vars, store_vars, login>>
    /\ screen.content = "register form"
    /\ LET v == render("app.py", session)
       IN  /\ session' = v.session
           /\ screen' = Screen(v, "back to login")

\* "Logout" in the sidebar of the tenant chat and of the landlord portal:
\* st.session_state.clear() empties delete_confirm with the rest
ClickLogout ==
    /\ UNCHANGED <<tool_vars, db, now, run, store_vars>>
    /\ screen.content \in {"tenant chat", "landlord portal"}
    /\ LET v == render("app.py", ClearedSession)
       IN  /\ session' = v.session
           /\ screen' = Screen(v, "logout")
    /\ delete_confirm' = NONE
    /\ login' = NONE

SessionIdle ==
    /\ session = ClearedSession
    /\ screen = [page |-> "none", content |-> "none", click |-> "none"]
    /\ login = NONE

(***************************************************************************)
(* Specification: the arguments of a call are drawn in Init, the call      *)
(* itself is one step.                                                     *)
(***************************************************************************)
Init ==
    /\ call \in RentCalls \cup MoveoutCalls \cup RepairCalls
    /\ ret = Pending
    /\ PortalIdle
    /\ StoreIdle
    /\ SessionIdle

Next ==
    \/ CallCalculateRent
    \/ CallCalculateMoveoutDate
    \/ CallGetRepairResponsibility

Spec == Init /\ [][Next]_vars

\* the landlord's page, opened on a db/ whose lease directories were made
\* before the session
InitPortal ==
    /\ call = NoCall
    /\ ret = Pending
    /\ db \in [PropertyIds -> UNION {InitialDirs(n) : n \in PropertyIds}]
    /\ \A n \in PropertyIds : db[n] \in InitialDirs(n)
    /\ delete_confirm = NONE
    /\ now = 1
    /\ run = [NoRun EXCEPT !.before = db]
    /\ users_json = register_user(Missing, "alice", "alice123", "landlords",
                                  "").file
    /\ last = [op |-> "authenticate_user", username |-> "alice",
               password |-> "alice123", role |-> "landlords", email |-> "",
               ok |-> TRUE, message |-> "Login successful!",
               before |-> users_json]
    /\ registered = {<<"landlords", "alice", "alice123">>}
    /\ procs = NoProcs
    /\ session = [user_role |-> "landlords", username |-> "alice"]
    /\ screen = [page |-> "pages/landlord_portal.py",
                 content |-> "landlord portal", click |-> "login"]
    /\ login = "landlords"

NextPortal ==
    \/ ClickSave
    \/ ClickConfirmOverwrite
    \/ ClickDelete
    \/ ClickConfirmDelete
    \/ ClickCancel

SpecPortal == InitPortal /\ [][NextPortal]_vars

\* calls of register_user and authenticate_user one after the other, on a
\* fresh installation
InitAuth ==
    /\ call = NoCall
    /\ ret = Pending
    /\ PortalIdle
    /\ users_json \in {Missing, EmptyFile}
    /\ last = NoCall
    /\ registered = {}
    /\ procs = NoProcs
    /\ SessionIdle

NextAuth ==
    \/ Register
    \/ Authenticate

SpecAuth == InitAuth /\ [][NextAuth]_vars

\* two calls of register_user at the same time
InitRace ==
    /\ call = NoCall
    /\ ret = Pending
    /\ PortalIdle
    /\ users_json \in {Missing, EmptyFile, JsonFile(EmptyUsers)}
    /\ last = NoCall
    /\ registered = {}
    /\ procs \in [Sessions -> {NotStarted(a) : a \in RegisterCalls}]
    /\ SessionIdle

NextRace ==
    \/ \E i \in Sessions : InitUserDb(i)
    \/ \E i \in Sessions : ReadUsers(i)
    \/ \E i \in Sessions : WriteUsers(i)

SpecRace == InitRace /\ [][NextRace]_vars

\* one browser session from its first page on, on a fresh installation
InitSession ==
    /\ call = NoCall
    /\ ret = Pending
    /\ PortalIdle
    /\ users_json \in {Missing, EmptyFile}
    /\ last = NoCall
    /\ registered = {}
    /\ procs = NoProcs
    /\ \E page \in Pages :
          LET v == render(page, ClearedSession)
          IN  /\ session = v.session
              /\ screen = Screen(v, "open")
    /\ login = NONE

NextSession ==
    \/ OpenPage
    \/ ClickLogin
    \/ ClickRegisterNewAccount
    \/ ClickRegister
    \/ ClickBackToLogin
    \/ ClickLogout

SpecSession == InitSession /\ [][NextSession]_vars


(***************************************************************************)
(* Reading a printed amount against an exact one.                          *)
(***************************************************************************)
\* c cents is exactly x eighths of a dollar
ExactAmount(c, x) == Eighths * c = 100 * x

\* c cents is x eighths of a dollar rounded to the cent (within half a cent)
RoundedAmount(c, x) == 2 * Abs(Eighths * c - 100 * x) <= Eighths

\* x eighths is a whole number of cents
WholeCents(x) == (100 * x) % Eighths = 0

IsRentCall == call.op = "calculate_rent" /\ ret # Pending

\* C1 (as stated): for every call of calculate_rent the reported total rent
\* equals monthly rent times months stayed exactly.
C1_TotalRentExact ==
    IsRentCall => ExactAmount(ret.total_rent, call.monthly_rent * call.stay_months)

\* C1 (amended): the reported total rent is monthly rent times months stayed
\* rounded to two decimals, whatever deposit, early termination and notice
\* period are; it is the exact product whenever that is a whole number of cents.
C1_TotalRentRounded ==
    IsRentCall =>
        LET product == call.monthly_rent * call.stay_months
        IN  /\ RoundedAmount(ret.total_rent, product)
            /\ WholeCents(product) => ExactAmount(ret.total_rent, product)

C1_Witness ==
    /\ IsRentCall
    /\ call.monthly_rent = Dollars(1000)
    /\ call.stay_months = 6
    /\ call.is_early_termination
    /\ call.notice_period_months = 2
    /\ ret.total_rent = 600000

\* The penalty a result charges: the early-termination text prints it, the
\* normal text has no penalty line.
PenaltyOf(r) == IF r.kind = "rent_early" THEN r.penalty ELSE 0

\* notice_period_months does not change the result of the current call
NoticePeriodIgnored ==
    \A n \in Months :
        calculate_rent(call.monthly_rent, call.stay_months, call.deposit,
                       call.is_early_termination, n) = ret

\* C2 (as stated): with early termination the penalty is monthly rent times
\* notice period and the refund is max(0, deposit - penalty); without it the
\* penalty is 0, the refund is the deposit and the notice period has no effect.
C2_PenaltyAndRefundExact ==
    IsRentCall =>
        LET penalty == call.monthly_rent * call.notice_period_months
        IN  IF call.is_early_termination
            THEN /\ ret.kind = "rent_early"
                 /\ ExactAmount(ret.penalty, penalty)
                 /\ ExactAmount(ret.refundable_deposit, Max(0, call.deposit - penalty))
            ELSE /\ PenaltyOf(ret) = 0
                 /\ ExactAmount(ret.refundable_deposit, call.deposit)
                 /\ NoticePeriodIgnored

\* C2 (amended): the same, every amount being reported rounded to two
\* decimals, hence exactly whenever it is a whole number of cents.
C2_PenaltyAndRefundRounded ==
    IsRentCall =>
        LET penalty == call.monthly_rent * call.notice_period_months
            refund == Max(0, call.deposit - penalty)
        IN  IF call.is_early_termination
            THEN /\ ret.kind = "rent_early"
                 /\ RoundedAmount(ret.penalty, penalty)
                 /\ WholeCents(penalty) => ExactAmount(ret.penalty, penalty)
                 /\ RoundedAmount(ret.refundable_deposit, refund)
                 /\ WholeCents(refund) => ExactAmount(ret.refundable_deposit, refund)
            ELSE /\ ret.kind = "rent_normal"
                 /\ PenaltyOf(ret) = 0
                 /\ RoundedAmount(ret.refundable_deposit, call.deposit)
                 /\ WholeCents(call.deposit) =>
                        ExactAmount(ret.refundable_deposit, call.deposit)
                 /\ NoticePeriodIgnored

\* rent 1000, deposit 2000, notice 2, early: penalty 2000.00, refund 0.00
C2_Witness ==
    /\ IsRentCall
    /\ call.monthly_rent = Dollars(1000)
    /\ call.deposit = Dollars(2000)
    /\ call.notice_period_months = 2
    /\ call.is_early_termination
    /\ ret.penalty = 200000
    /\ ret.refundable_deposit = 0

\* C3: the refundable deposit reported by calculate_rent is never negative,
\* in the early-termination branch (also when the penalty exceeds the
\* deposit) and in the normal branch.
C3_RefundNeverNegative ==
    IsRentCall => ret.refundable_deposit >= 0

\* early termination with a penalty above the deposit
C3_Witness ==
    /\ IsRentCall
    /\ call.is_early_termination
    /\ call.monthly_rent * call.notice_period_months > call.deposit
    /\ call.deposit > 0
    /\ ret.refundable_deposit = 0

(***************************************************************************)
(* The calendar, stated on its own for the claims about dates.             *)
(***************************************************************************)
CalendarLeap(y) ==
    IF y % 400 = 0 THEN TRUE ELSE IF y % 100 = 0 THEN FALSE ELSE y % 4 = 0

CalendarMonthLength(y, m) ==
    IF m = 2 THEN (IF CalendarLeap(y) THEN 29 ELSE 28)
    ELSE IF m \in {4, 6, 9, 11} THEN 30 ELSE 31

FirstOfNextMonth(date) ==
    IF date.month < 12
    THEN [year |-> date.year, month |-> date.month + 1, day |-> 1]
    ELSE [year |-> date.year + 1, month |-> 1, day |-> 1]

\* the day n days after date (n >= 0), counted month by month: the days left
\* in the month are used up, then the count goes on from the first of the next
RECURSIVE PlusDays(_, _)
PlusDays(date, n) ==
    LET left == CalendarMonthLength(date.year, date.month) - date.day
    IN  IF n <= left
        THEN [date EXCEPT !.day = date.day + n]
        ELSE PlusDays(FirstOfNextMonth(date), n - left - 1)

\* s is "YYYY-MM-DD": four, two and two digits with hyphens, a real date
StrictYMD(s) ==
    /\ Len(s) = 10
    /\ \A i \in {1, 2, 3, 4, 6, 7, 9, 10} : s[i] \in Digit
    /\ s[5] = "-"
    /\ s[8] = "-"
    /\ IntOf(s, 1, 4) >= 1
    /\ IntOf(s, 6, 7) \in 1 .. 12
    /\ IntOf(s, 9, 10) \in 1 .. CalendarMonthLength(IntOf(s, 1, 4), IntOf(s, 6, 7))

\* the date a strict text names
TextDate(s) ==
    [year |-> IntOf(s, 1, 4), month |-> IntOf(s, 6, 7), day |-> IntOf(s, 9, 10)]

\* the date a printed "Y<nian>MM<yue>DD<ri>" names
PrintedDate(t) ==
    LET n == Len(t)
    IN  IF n >= 8 /\ t[n] = "<ri>" /\ t[n - 3] = "<yue>" /\ t[n - 6] = "<nian>"
        THEN [year |-> IntOf(t, 1, n - 7), month |-> IntOf(t, n - 5, n - 4),
              day |-> IntOf(t, n - 2, n - 1)]
        ELSE [year |-> 0, month |-> 0, day |-> 0]

IsMoveoutCall == call.op = "calculate_moveout_date" /\ ret # Pending

\* C4 (as stated): for every well-formed current date and notice_days >= 0
\* the move-out date is the current date plus exactly notice_days days.
C4_MoveoutDateAlways ==
    (IsMoveoutCall /\ StrictYMD(call.current_date) /\ call.notice_days >= 0) =>
        /\ ret.kind = "moveout"
        /\ PrintedDate(ret.moveout_date) = PlusDays(TextDate(call.current_date), call.notice_days)

\* C4 (amended): for every well-formed current date and notice_days >= 0 the
\* move-out date is the current date plus exactly notice_days calendar days
\* whenever that day is not after 9999-12-31; past it the call returns the
\* error message and no date.
C4_MoveoutDateInRange ==
    (IsMoveoutCall /\ StrictYMD(call.current_date) /\ call.notice_days >= 0) =>
        LET target == PlusDays(TextDate(call.current_date), call.notice_days)
        IN  IF target.year <= MAXYEAR
            THEN /\ ret.kind = "moveout"
                 /\ PrintedDate(ret.moveout_date) = target
            ELSE ret.kind = "moveout_error"

\* "2025-03-01" + 60 days = 2025-04-30
C4_Witness ==
    /\ IsMoveoutCall
    /\ call.current_date = <<"2", "0", "2", "5", "-", "0", "3", "-", "0", "1">>
    /\ call.notice_days = 60
    /\ ret.kind = "moveout"
    /\ ret.moveout_date = <<"2", "0", "2", "5", "<nian>", "0", "4", "<yue>", "3", "0", "<ri>">>

\* C5: in every successful result days_remaining equals the notice_days given.
C5_DaysRemainingIsNoticeDays ==
    (IsMoveoutCall /\ ret.kind = "moveout") => ret.days_remaining = call.notice_days

\* a year of notice from the leap day
C5_Witness ==
    /\ IsMoveoutCall
    /\ call.current_date = <<"2", "0", "2", "4", "-", "0", "2", "-", "2", "9">>
    /\ call.notice_days = 365
    /\ ret.kind = "moveout"
    /\ ret.days_remaining = 365

\* C6: every text that is not a strict "YYYY-MM-DD" real date yields the
\* error message and never a move-out result.
C6_StrictParse ==
    (IsMoveoutCall /\ ~StrictYMD(call.current_date)) => ret.kind = "moveout_error"

FormatName == <<"Y", "Y", "Y", "Y", "-", "M", "M", "-", "D", "D">>

MonthForms == {DecimalText(m) : m \in 1 .. 9} \cup {Pad2(m) : m \in 1 .. 12}

DayForms ==
    {DecimalText(d) : d \in 1 .. 9} \cup {Pad2(d) : d \in 1 .. 31}
        \cup {<<" ">> \o DecimalText(d) : d \in 1 .. 9}

IsPrefix(p, s) == Len(p) <= Len(s) /\ SubSeq(s, 1, Len(p)) = p

\* s starts with four digits, "-", a month, "-" and a day
DateLikePrefix(s) ==
    /\ Len(s) >= 8
    /\ \A i \in 1 .. 4 : s[i] \in Digit
    /\ \E m \in MonthForms, d \in DayForms :
          IsPrefix(SubSeq(s, 1, 4) \o <<"-">> \o m \o <<"-">> \o d, s)

Category(r) ==
    CASE r.kind = "tenant_bears" -> "tenant-consumable"
      [] r.kind = "air_conditioner" -> "landlord-maintained"
      [] r.kind \in {"small_repair", "cost_split"} -> "cost-split"
      [] r.kind = "landlord_bears" -> "structural"
      [] OTHER -> "undetermined"

TenantShare(r, cost) ==
    CASE r.kind = "tenant_bears" -> 100 * cost
      [] r.kind = "small_repair" -> Eighths * r.cost
      [] r.kind = "cost_split" -> Eighths * r.tenant_share
      [] OTHER -> 0

LandlordShare(r, cost) ==
    CASE r.kind \in {"air_conditioner", "landlord_bears"} -> 100 * cost
      [] r.kind = "cost_split" -> Eighths * r.landlord_share
      [] OTHER -> 0

\* the cost as the text prints it, where it prints it
PrintedCost(r) == Eighths * r.cost

CasePairs ==
    {<<"A", "a">>, <<"B", "b">>, <<"C", "c">>, <<"D", "d">>,
     <<"E", "e">>, <<"F", "f">>, <<"G", "g">>, <<"H", "h">>,
     <<"I", "i">>, <<"J", "j">>, <<"K", "k">>, <<"L", "l">>,
     <<"M", "m">>, <<"N", "n">>, <<"O", "o">>, <<"P", "p">>,
     <<"Q", "q">>, <<"R", "r">>, <<"S", "s">>, <<"T", "t">>,
     <<"U", "u">>, <<"V", "v">>, <<"W", "w">>, <<"X", "x">>,
     <<"Y", "y">>, <<"Z", "z">>}

SameLetter(a, b) == a = b \/ <<a, b>> \in CasePairs \/ <<b, a>> \in CasePairs

\* the word w occurs in s, in any letter case
ContainsAnyCase(s, w) ==
    \E i \in 0 .. (Len(s) - Len(w)) :
        \A j \in 1 .. Len(w) : SameLetter(s[i + j], w[j])

MentionsBulbOrTube(s) ==
    ContainsAnyCase(s, <<"b", "u", "l", "b">>) \/ ContainsAnyCase(s, <<"t", "u", "b", "e">>)

MentionsAirConditioner(s) == ContainsAnyCase(s, <<"a", "i", "r", " ", "c", "o", "n", "d", "i", "t", "i", "o", "n", "e", "r">>)

MentionsStructure(s) ==
    \E w \in {<<"l", "i", "g", "h", "t">>, <<"r", "o", "o", "f">>, <<"p", "i", "p", "e">>, <<"c", "i", "r", "c", "u", "i", "t">>, <<"s", "t", "r", "u", "c", "t", "u", "r", "e">>} :
        ContainsAnyCase(s, w)

IsRepairCall == call.op = "get_repair_responsibility" /\ ret # Pending

\* C8: a repair type containing "bulb" or "tube" in any letter case is
\* tenant-consumable with the tenant bearing the whole cost and the landlord
\* nothing, for every cost and whatever other keyword the text contains.
C8_BulbOrTubeIsTenant ==
    (IsRepairCall /\ MentionsBulbOrTube(call.repair_type)) =>
        /\ Category(ret) = "tenant-consumable"
        /\ TenantShare(ret, call.cost) = 100 * call.cost
        /\ LandlordShare(ret, call.cost) = 0

\* a bulb of an air conditioner, at a cost: rule 1 wins over rules 2, 3 and 4
C8_Witness ==
    /\ IsRepairCall
    /\ MentionsBulbOrTube(call.repair_type)
    /\ MentionsAirConditioner(call.repair_type)
    /\ call.repair_type # lower(call.repair_type)
    /\ call.cost > 0
    /\ ret.kind = "tenant_bears"

Min(a, b) == IF a <= b THEN a ELSE b

IsCostRule ==
    /\ IsRepairCall
    /\ ~MentionsBulbOrTube(call.repair_type)
    /\ ~MentionsAirConditioner(call.repair_type)
    /\ call.cost > 0

\* C10 (as stated): when rules 1 and 2 do not match and cost > 0 the result is
\* a cost-split with tenant share min(cost, 200) and landlord share cost minus
\* the tenant share, both non-negative and adding up to the cost.
C10_CostSplitExact ==
    IsCostRule =>
        LET tenant == Min(call.cost, Dollars(200))
        IN  /\ Category(ret) = "cost-split"
            /\ TenantShare(ret, call.cost) = 100 * tenant
            /\ LandlordShare(ret, call.cost) = 100 * (call.cost - tenant)
            /\ TenantShare(ret, call.cost) + LandlordShare(ret, call.cost) = 100 * call.cost

\* a is the amount x (in 1/800 dollar) rounded to the cent
RoundedTo(a, x) == a % Eighths = 0 /\ 2 * Abs(a - x) <= Eighths

\* C10 (amended): the same with every amount reported rounded to two decimals
\* (exactly when it is a whole number of cents): the tenant share is
\* min(cost, 200), the landlord share cost minus the tenant share, both are
\* non-negative and they add up to the cost as reported; a cost of 200 is
\* borne by the tenant alone.
C10_CostSplitRounded ==
    IsCostRule =>
        LET tenant == Min(call.cost, Dollars(200))
            t == TenantShare(ret, call.cost)
            l == LandlordShare(ret, call.cost)
        IN  /\ Category(ret) = "cost-split"
            /\ RoundedTo(t, 100 * tenant)
            /\ RoundedTo(l, 100 * (call.cost - tenant))
            /\ WholeCents(call.cost) => (t = 100 * tenant /\ l = 100 * (call.cost - tenant))
            /\ t >= 0
            /\ l >= 0
            /\ t + l = PrintedCost(ret)
            /\ RoundedTo(PrintedCost(ret), 100 * call.cost)
            /\ call.cost = Dollars(200) => (l = 0 /\ t = 100 * call.cost)

\* 300 for a leak: 200 on the tenant, 100 on the landlord
C10_Witness ==
    /\ IsRepairCall
    /\ call.repair_type = <<"p", "l", "u", "m", "b", "i", "n", "g", " ", "l", "e", "a", "k">>
    /\ call.cost = Dollars(300)
    /\ ret.kind = "cost_split"
    /\ ret.tenant_share = 20000
    /\ ret.landlord_share = 10000

\* the first of the five rules, in their order, that the call matches
FirstRule(s, cost) ==
    IF MentionsBulbOrTube(s) THEN 1
    ELSE IF MentionsAirConditioner(s) THEN 2
    ELSE IF cost > 0 THEN 3
    ELSE IF MentionsStructure(s) THEN 4
    ELSE 5

RuleCategory ==
    <<"tenant-consumable", "landlord-maintained", "cost-split", "structural",
      "undetermined">>

\* C11: the rules are evaluated in the order 1 to 5 and the first match wins;
\* the cost test comes before the structural keywords, so a repair type with
\* "light", "roof", "pipe", "circuit" or "structure", a cost > 0 and no
\* bulb/tube/air conditioner is a cost-split, never structural.
C11_FirstMatchWins ==
    IsRepairCall =>
        /\ Category(ret) = RuleCategory[FirstRule(call.repair_type, call.cost)]
        /\ (MentionsStructure(call.repair_type) /\ IsCostRule) =>
              (Category(ret) = "cost-split" /\ ret.kind # "landlord_bears")

\* a pipe repair costing 300
C11_Witness ==
    /\ IsRepairCall
    /\ call.repair_type = <<"p", "i", "p", "e">>
    /\ call.cost = Dollars(300)
    /\ ret.kind = "cost_split"

\* C12: with no bulb/tube, no air conditioner and cost = 0, a repair type
\* containing "light", "roof", "pipe", "circuit" or "structure" in any letter
\* case is structural: the tenant bears nothing, the landlord the cost.
C12_StructuralIsLandlord ==
    (IsRepairCall /\ ~MentionsBulbOrTube(call.repair_type)
        /\ ~MentionsAirConditioner(call.repair_type) /\ call.cost = 0
        /\ MentionsStructure(call.repair_type)) =>
        /\ ret.kind = "landlord_bears"
        /\ Category(ret) = "structural"
        /\ TenantShare(ret, call.cost) = 0
        /\ LandlordShare(ret, call.cost) = 100 * call.cost

\* "Roof", written with a capital, at no cost
C12_Witness ==
    /\ IsRepairCall
    /\ call.repair_type = <<"R", "o", "o", "f">>
    /\ call.cost = 0
    /\ ret.kind = "landlord_bears"

\* C13: with no keyword of rules 1, 2 and 4 in the repair type and cost = 0
\* the call returns the undetermined text as its normal result, with both
\* shares 0.
C13_OtherwiseUndetermined ==
    (IsRepairCall /\ FirstRule(call.repair_type, call.cost) = 5) =>
        /\ ret.kind = "undetermined"
        /\ Category(ret) = "undetermined"
        /\ TenantShare(ret, call.cost) = 0
        /\ LandlordShare(ret, call.cost) = 0

\* "mystery issue" at no cost
C13_Witness ==
    /\ IsRepairCall
    /\ call.repair_type = <<"m", "y", "s", "t", "e", "r", "y", " ", "i", "s", "s", "u", "e">>
    /\ call.cost = 0
    /\ ret.kind = "undetermined"

\* a run of "Save to Database" with a Property ID and an uploaded PDF
IsSave == run.click = "save" /\ run.id # "" /\ run.up # NoUpload

\* the PDF, the index and the metadata of a lease directory
LeaseFiles(dir) ==
    IF dir.exists THEN <<dir.contract, dir.index, dir.metadata>>
    ELSE <<NoUpload, NoUpload, NoFile>>

\* C15: "Save to Database" with a non-empty Property ID that has no
\* directory under db/ and an uploaded PDF ends with the lease saved:
\* db/<id> holds contract.pdf, the index and metadata.json, and the success
\* message is shown.
C15_NewLeaseIsSaved ==
    (IsSave /\ ~exists(run.before, run.id)) =>
        /\ run.message = "success"
        /\ exists(db, run.id)
        /\ db[run.id].contract = run.up
        /\ db[run.id].index = run.up
        /\ db[run.id].metadata.present
        /\ db[run.id].metadata.property_id = run.id

\* C16: "Save to Database" for a Property ID whose directory exists leaves
\* contract.pdf, the index and metadata.json of that lease as they were; only
\* a run started by "Confirm Overwrite Old Contract" may replace them.
C16_NoOverwriteWithoutConfirmation ==
    (run.click = "save" /\ exists(run.before, run.id)) =>
        LeaseFiles(db[run.id]) = LeaseFiles(run.before[run.id])

\* C17: the delete button of row X makes X the pending deletion; "Confirm
\* Delete" removes exactly the directory of the pending deletion and clears
\* it; "Cancel" clears it and removes nothing.
C17_DeleteChosenLease ==
    /\ run.click = "delete" => delete_confirm = run.id
    /\ run.click = "confirm_delete" =>
          /\ run.pending \in DOMAIN run.before
          /\ db = [run.before EXCEPT ![run.pending] = Absent]
          /\ delete_confirm = NONE
    /\ run.click = "cancel" => (db = run.before /\ delete_confirm = NONE)

\* the users a file stands for: a missing or empty file is the empty store
StoredUsers(file) == IF file.state = "json" THEN file.users ELSE EmptyUsers

Registered(file, role, username) ==
    role \in DOMAIN StoredUsers(file)
        /\ username \in DOMAIN StoredUsers(file)[role]

\* C18: register_user for a username that is already registered under that
\* role returns failure and leaves the store as it was (hash and email of
\* the first registration stay); a role other than "landlords" and "tenants"
\* is rejected and the store stays as it was.
C18_DuplicateOrInvalidRoleRejected ==
    (last.op = "register_user"
        /\ (last.role \notin ValidRoles
               \/ Registered(last.before, last.role, last.username))) =>
        /\ ~last.ok
        /\ StoredUsers(users_json) = StoredUsers(last.before)

\* a second registration of a name with another password is refused and the
\* first password's hash is still the stored one
C18_Witness ==
    /\ last.op = "register_user"
    /\ Registered(last.before, last.role, last.username)
    /\ ~last.ok
    /\ users_json.users[last.role][last.username].password
          # _hash_password(last.password)

\* C19: after any sequence of register_user calls, authenticate_user(u, p, r)
\* succeeds exactly when r is a valid role, u was registered under r and p is
\* the password of that registration; the two roles are separate namespaces.
C19_AuthenticateIffRegistered ==
    /\ \A u \in Usernames, p \in Passwords, r \in Roles :
          authenticate_user(users_json, u, p, r).ok <=>
              (r \in ValidRoles /\ <<r, u, p>> \in registered)
    /\ last.op = "authenticate_user" =>
          (last.ok <=> (last.role \in ValidRoles
                          /\ <<last.role, last.username, last.password>>
                                \in registered))

\* a login that succeeds while the same name is registered under the other
\* role with another password
C19_Witness ==
    /\ last.op = "authenticate_user"
    /\ last.ok
    /\ \E r \in ValidRoles \ {last.role}, p \in Passwords \ {last.password} :
          <<r, last.username, p>> \in registered

\* C20: two calls of register_user for different usernames that run at the
\* same time and both return success leave both users in db/users.json.
C20_BothRegistrationsKept ==
    (/\ \A i \in Sessions : procs[i].pc = "done" /\ procs[i].ok
     /\ procs[1].args.username # procs[2].args.username) =>
        \A i \in Sessions :
            Registered(users_json, procs[i].args.role, procs[i].args.username)

\* C21: in every state of a session, user_role holds a role only after
\* authenticate_user has returned success for that role (and the session's
\* username) in this session; the tenant chat is drawn only while user_role
\* is "tenants" and the landlord portal only while it is "landlords"; after
\* Logout the session holds no role and neither page is drawn until a new
\* successful login.
C21_RoleOnlyAfterLogin ==
    /\ session.user_role \in {Unset, NONE} \cup ValidRoles
    /\ session.user_role \in ValidRoles =>
          /\ login = session.user_role
          /\ \E p \in Passwords :
                authenticate_user(users_json, session.username, p,
                                  session.user_role).ok
    /\ screen.content = "tenant chat" => session.user_role = "tenants"
    /\ screen.content = "landlord portal" => session.user_role = "landlords"
    /\ login = NONE =>
          /\ session.user_role \notin ValidRoles
          /\ screen.content \notin {"tenant chat", "landlord portal"}
    /\ screen.click = "logout" =>
          /\ login = NONE
          /\ session = session_init(ClearedSession)
          /\ screen.content = "login form"

\* a Logout that follows a successful login
C21_Witness ==
    /\ screen.click = "logout"
    /\ last.op = "authenticate_user"
    /\ last.ok
    /\ screen.content = "login form"
    /\ session.user_role = NONE

====
